---- MODULE Spec2Model ----
(***************************************************************************)
(* A model of the help-queue core of YABOB:                                *)
(*   - HelpQueueV2        (src/src/help-queue/help-queue.ts)               *)
(*   - AttendingServerV2  (src/src/attending-server/command-ch-constants.ts)*)
(*                                                                         *)
(* Every async method is split at its first await: the synchronous prefix  *)
(* (all checks and all mutations of the method) is one atomic step, as the *)
(* JavaScript event loop runs it; the call then stays in flight (awaiting  *)
(* the render and the other external I/O) until a Return step hands its    *)
(* result to the caller.  A method that throws before its first await      *)
(* rejects at once and is recorded in ret without occupying a slot.        *)
(*                                                                         *)
(* Helpee and Helper are objects passed by reference: enqueue stamps the   *)
(* waitStart field of the object it is given and stores that reference.    *)
(* There is one Helpee object per student and one Helper object per        *)
(* (queue, helper member).  External I/O (render, invites, DMs) is assumed *)
(* not to throw.                                                           *)
(***************************************************************************)
EXTENDS Integers, Sequences, FiniteSets, Bags, TLC

\* ------------------------------------------------------------------ bounds
MaxTime == 1        \* the clock runs over 0..MaxTime
MaxEnq == 3         \* successful enqueues in one behaviour
NumCalls == 2       \* calls that can be in flight (suspended at an await) at once
MaxServerEnq == 2   \* successful enqueues in one behaviour of the two-queue server
MaxAdminEnq == 1    \* successful enqueues in one behaviour of the queue collection
MaxFairTime == 2     \* the clock of the fair specification runs over 0..MaxFairTime
MaxSessionTime == 3 \* the start and end times of the sessions closeAll reduces

\* ------------------------------------------------------------ the universe
Students == {"s1", "s2"}
Helpers == {"h1", "h2"}
QueueNames == {"A", "B"}
None == "none"
\* the value of a Date field that was never set (undefined); it is below every time
NoTime == 0 - 1
Time == 0..MaxTime

\* q ranges over QueueNames, the HelpQueueV2 objects: a queue object is
\* identified by the id of its category channel, and carries a name
\* (queueName).  The objects the server starts with are named by their id

VARIABLES
    now,            \* the wall clock read by new Date()
    isOpen,         \* HelpQueueV2.isOpen, per queue
    students,       \* HelpQueueV2.students, per queue: a sequence of Helpee references
    helpers,        \* HelpQueueV2.helpers, per queue: a set of Helper objects
    waitStart,      \* Helpee.waitStart, per Helpee object
    helpStart,      \* Helper.helpStart, per Helper object (queue, member)
    helpEnd,        \* Helper.helpEnd, per Helper object
    helpedMembers,  \* Helper.helpedMembers, per Helper object
    calls,          \* the calls suspended at an await: a bag of outcomes to deliver
    ret,            \* the outcome this step delivered to a caller, NoCall if none
    tickets,        \* history: the enqueue number of each entry of students
    nEnq,           \* history: the number of successful enqueues so far
    lastDeq,        \* history: per queue, what the latest successful dequeue removed
    queues,         \* AttendingServerV2.queues: the queue objects in iteration order
    categories,     \* guild.channels.cache: the ids of the queue categories that exist
    queueName,      \* QueueChannel.queueName, per queue object (the category's name)
    pending,        \* the server calls suspended at an await they resume from
    dms,            \* the direct messages sent to students by announcements: a bag
    observing,      \* the fan-outs to the server extensions that are under way
    display         \* QueueDisplayV2, per queue: the view model it was last given

vars == <<now, isOpen, students, helpers, waitStart, helpStart, helpEnd,
          helpedMembers, calls, ret, tickets, nEnq, lastDeq,
          queues, categories, queueName, pending, dms, observing, display>>

queueVars == <<isOpen, students, helpers, waitStart, helpStart, helpEnd,
               helpedMembers, tickets, nEnq, lastDeq>>

serverVars == <<queues, categories, queueName, pending>>

busVars == <<dms, observing, display>>

\* ---------------------------------------------------------------- helpers
NoCall == [op |-> "idle", q |-> None, who |-> None, res |-> None, tk |-> 0]

\* a call and what it hands to its caller; tk is history: the enqueue number of
\* the requester a dequeue obtained
Outcome(op, q, who, res, tk) ==
    [op |-> op, q |-> q, who |-> who, res |-> res, tk |-> tk]

NoDeq == [tk |-> 0, ws |-> 0]

\* a method that threw before its first await: the promise is rejected at once
Reject(op, q, who, err) ==
    /\ ret' = Outcome(op, q, who, err, 0)
    /\ UNCHANGED calls

\* a method that reached its first await: it is suspended with its result
Suspend(op, q, who, res, tk) ==
    /\ BagCardinality(calls) < NumCalls
    /\ calls' = calls (+) SetToBag({Outcome(op, q, who, res, tk)})
    /\ ret' = NoCall

\* QueueViewModel, without the name and the calendar string
QueueViewModel(helperIDs, studentDisplayNames, open) ==
    [helperIDs |-> helperIDs, studentDisplayNames |-> studentDisplayNames,
     isOpen |-> open]

\* HelpQueueV2.cleanUpQueueChannel: the view model a new queue is rendered with
emptyQueue == QueueViewModel({}, <<>>, FALSE)

\* a render of the queues as they were before the step
triggerRender_stale(Q) ==
    display' = [q \in QueueNames |->
                    IF q \in Q
                    THEN QueueViewModel(helpers[q], students[q], isOpen[q])
                    ELSE display[q]]

\* HelpQueueV2.triggerRender, for each queue of Q: the view model is built
\* from the fields as the method's assignments left them and handed to
\* display.render, whose promise the method awaits
triggerRender(Q) ==
    display' = [q \in QueueNames |->
                    IF q \in Q
                    THEN QueueViewModel(helpers'[q], students'[q], isOpen'[q])
                    ELSE display[q]]

\* HelpQueueV2.length
length(q) == Len(students[q])

\* HelpQueueV2.first(): undefined when there are no students
first(q) == IF students[q] = <<>> THEN None ELSE Head(students[q])

Init ==
    /\ now = 0
    /\ isOpen = [q \in QueueNames |-> FALSE]
    /\ students = [q \in QueueNames |-> <<>>]
    /\ helpers = [q \in QueueNames |-> {}]
    /\ waitStart = [s \in Students |-> NoTime]
    /\ helpStart = [q \in QueueNames |-> [h \in Helpers |-> NoTime]]
    /\ helpEnd = [q \in QueueNames |-> [h \in Helpers |-> NoTime]]
    /\ helpedMembers = [q \in QueueNames |-> [h \in Helpers |-> <<>>]]
    /\ calls = EmptyBag
    /\ ret = NoCall
    /\ tickets = [q \in QueueNames |-> <<>>]
    /\ nEnq = 0
    /\ lastDeq = [q \in QueueNames |-> NoDeq]
    /\ queues = <<"A", "B">>
    /\ categories = QueueNames
    /\ queueName = [q \in QueueNames |-> q]
    /\ pending = EmptyBag
    /\ dms = EmptyBag
    /\ observing = EmptyBag
    /\ display = [q \in QueueNames |-> emptyQueue]

\* the clock advances between any two steps
Tick ==
    /\ now < MaxTime
    /\ now' = now + 1
    /\ ret' = NoCall
    /\ UNCHANGED <<queueVars, serverVars, busVars, calls>>

\* Return of a clearQueue that empties the waiting list after its await
Return_clearAfterRender(c) ==
    /\ BagIn(c, calls)
    /\ ret' = c
    /\ calls' = calls (-) SetToBag({c})
    /\ students' = IF c.op = "clearQueue"
                   THEN [students EXCEPT ![c.q] = <<>>] ELSE students
    /\ tickets' = IF c.op = "clearQueue"
                  THEN [tickets EXCEPT ![c.q] = <<>>] ELSE tickets
    /\ UNCHANGED <<now, isOpen, helpers, waitStart, helpStart, helpEnd,
                   helpedMembers, nEnq, lastDeq, serverVars, busVars>>

\* the awaited render (and the other awaited I/O) completes: the caller resumes
Return(c) ==
    /\ BagIn(c, calls)
    /\ ret' = c
    /\ calls' = calls (-) SetToBag({c})
    /\ UNCHANGED <<now, queueVars, serverVars, busVars>>

\* helpers is a public field that HelpQueueV2 never adds to: its owner does,
\* with a Helper object built as in openAllOpenableQueues
AddHelper(q, h) ==
    /\ h \notin helpers[q]
    /\ helpers' = [helpers EXCEPT ![q] = @ \cup {h}]
    /\ helpStart' = [helpStart EXCEPT ![q][h] = now]
    /\ helpEnd' = [helpEnd EXCEPT ![q][h] = NoTime]
    /\ helpedMembers' = [helpedMembers EXCEPT ![q][h] = <<>>]
    /\ ret' = NoCall
    /\ UNCHANGED <<now, isOpen, students, waitStart, calls, tickets, nEnq, lastDeq,
                   serverVars, busVars>>

\* openQueue without its guard: an Open queue is opened and stamped again
openQueue_unguarded(q, h) ==
    /\ isOpen' = [isOpen EXCEPT ![q] = TRUE]
    /\ helpStart' = [helpStart EXCEPT ![q] =
           [x \in Helpers |-> IF x \in helpers[q] THEN now ELSE @[x]]]
    /\ Suspend("openQueue", q, h, "void", 0)
    /\ UNCHANGED <<now, students, helpers, waitStart, helpEnd,
                   helpedMembers, tickets, nEnq, lastDeq, serverVars, dms, observing>>
    /\ triggerRender({q})

\* HelpQueueV2.openQueue.  The method has no parameter: h is the helper the
\* caller opens for (openAllOpenableQueues passes it), which the method ignores
openQueue(q, h) ==
    IF isOpen[q]
    THEN /\ Reject("openQueue", q, h, "AlreadyOpen")
         /\ UNCHANGED <<now, queueVars, serverVars, busVars>>
    ELSE /\ isOpen' = [isOpen EXCEPT ![q] = TRUE]
         /\ helpStart' = [helpStart EXCEPT ![q] =
                [x \in Helpers |-> IF x \in helpers[q] THEN now ELSE @[x]]]
         /\ Suspend("openQueue", q, h, "void", 0)
         /\ UNCHANGED <<now, students, helpers, waitStart, helpEnd,
                        helpedMembers, tickets, nEnq, lastDeq, serverVars, dms, observing>>
         /\ triggerRender({q})

\* a closeQueue that closes every queue of the server
closeQueue_all(q, h) ==
    IF isOpen[q]
    THEN /\ Reject("closeQueue", q, h, "NotHosting")
         /\ UNCHANGED <<now, queueVars, serverVars, busVars>>
    ELSE /\ isOpen' = [x \in QueueNames |-> FALSE]
         /\ helpEnd' = [helpEnd EXCEPT ![q] =
                [x \in Helpers |-> IF x \in helpers[q] THEN now ELSE @[x]]]
         /\ Suspend("closeQueue", q, h, "void", 0)
         /\ UNCHANGED <<now, students, helpers, waitStart, helpStart,
                        helpedMembers, tickets, nEnq, lastDeq, serverVars, dms, observing>>
         /\ triggerRender({q})

\* HelpQueueV2.closeQueue.  As for openQueue, h is the closing helper, which
\* the method ignores.  The guard throws when the queue IS open
closeQueue(q, h) ==
    IF isOpen[q]
    THEN /\ Reject("closeQueue", q, h, "NotHosting")
         /\ UNCHANGED <<now, queueVars, serverVars, busVars>>
    ELSE /\ isOpen' = [isOpen EXCEPT ![q] = FALSE]
         /\ helpEnd' = [helpEnd EXCEPT ![q] =
                [x \in Helpers |-> IF x \in helpers[q] THEN now ELSE @[x]]]
         /\ Suspend("closeQueue", q, h, "void", 0)
         /\ UNCHANGED <<now, students, helpers, waitStart, helpStart,
                        helpedMembers, tickets, nEnq, lastDeq, serverVars, dms, observing>>
         /\ triggerRender({q})

\* enqueue without its guard: a Closed queue accepts the student
enqueue_unguarded(q, s) ==
    /\ nEnq < MaxEnq
    /\ waitStart' = [waitStart EXCEPT ![s] = now]
    /\ students' = [students EXCEPT ![q] = Append(@, s)]
    /\ tickets' = [tickets EXCEPT ![q] = Append(@, nEnq + 1)]
    /\ nEnq' = nEnq + 1
    /\ Suspend("enqueue", q, s, "void", 0)
    /\ UNCHANGED <<now, isOpen, helpers, helpStart, helpEnd,
                   helpedMembers, lastDeq, serverVars, dms, observing>>
    /\ triggerRender({q})

\* an enqueue that waits for nothing else to be awaited: it is refused while
\* any call is suspended
enqueue_locked(q, s) ==
    IF ~isOpen[q] \/ calls # EmptyBag
    THEN /\ Reject("enqueue", q, s, IF isOpen[q] THEN "Busy" ELSE "NotOpen")
         /\ UNCHANGED <<now, queueVars, serverVars, busVars>>
    ELSE /\ nEnq < MaxEnq
         /\ waitStart' = [waitStart EXCEPT ![s] = now]
         /\ students' = [students EXCEPT ![q] = Append(@, s)]
         /\ tickets' = [tickets EXCEPT ![q] = Append(@, nEnq + 1)]
         /\ nEnq' = nEnq + 1
         /\ Suspend("enqueue", q, s, "void", 0)
         /\ UNCHANGED <<now, isOpen, helpers, helpStart, helpEnd,
                        helpedMembers, lastDeq, serverVars, dms, observing>>
         /\ triggerRender({q})

\* HelpQueueV2.enqueue
enqueue(q, s) ==
    IF ~isOpen[q]
    THEN /\ Reject("enqueue", q, s, "NotOpen")
         /\ UNCHANGED <<now, queueVars, serverVars, busVars>>
    ELSE /\ nEnq < MaxEnq
         /\ waitStart' = [waitStart EXCEPT ![s] = now]
         /\ students' = [students EXCEPT ![q] = Append(@, s)]
         /\ tickets' = [tickets EXCEPT ![q] = Append(@, nEnq + 1)]
         /\ nEnq' = nEnq + 1
         /\ Suspend("enqueue", q, s, "void", 0)
         /\ UNCHANGED <<now, isOpen, helpers, helpStart, helpEnd,
                        helpedMembers, lastDeq, serverVars, dms, observing>>
         /\ triggerRender({q})

\* what a dequeue reads and writes, as one value: dequeueFirst dequeues twice
\* in one synchronous run
Store ==
    [students |-> students, helpedMembers |-> helpedMembers,
     tickets |-> tickets, lastDeq |-> lastDeq]

\* the two guards of dequeue in the other order
dequeueCheck_swapped(S, q, h) ==
    IF Len(S.students[q]) = 0 THEN "Empty"
    ELSE IF h \notin helpers[q] THEN "NotAuthorized"
    ELSE "ok"

\* HelpQueueV2.dequeue, its two guards: the error thrown, or "ok"
dequeueCheck(S, q, h) ==
    IF h \notin helpers[q] THEN "NotAuthorized"
    ELSE IF Len(S.students[q]) = 0 THEN "Empty"
    ELSE "ok"

\* dequeue reading the head without removing it: students[0] for students.shift()
dequeueApply_noShift(S, q, h) ==
    LET firstStudent == Head(S.students[q])
    IN  [students |-> S.students,
         helpedMembers |-> [S.helpedMembers EXCEPT ![q][h] = Append(@, firstStudent)],
         tickets |-> S.tickets,
         lastDeq |-> [S.lastDeq EXCEPT ![q] =
                        [tk |-> Head(S.tickets[q]), ws |-> waitStart[firstStudent]]]]

\* a dequeue that takes the first student out and records it nowhere
dequeueApply_noPush(S, q, h) ==
    LET firstStudent == Head(S.students[q])
    IN  [students |-> [S.students EXCEPT ![q] = Tail(@)],
         helpedMembers |-> S.helpedMembers,
         tickets |-> [S.tickets EXCEPT ![q] = Tail(@)],
         lastDeq |-> [S.lastDeq EXCEPT ![q] =
                        [tk |-> Head(S.tickets[q]), ws |-> waitStart[firstStudent]]]]

\* HelpQueueV2.dequeue, its mutation: students.shift() and helpedMembers.push()
dequeueApply(S, q, h) ==
    LET firstStudent == Head(S.students[q])
    IN  [students |-> [S.students EXCEPT ![q] = Tail(@)],
         helpedMembers |-> [S.helpedMembers EXCEPT ![q][h] = Append(@, firstStudent)],
         tickets |-> [S.tickets EXCEPT ![q] = Tail(@)],
         lastDeq |-> [S.lastDeq EXCEPT ![q] =
                        [tk |-> Head(S.tickets[q]), ws |-> waitStart[firstStudent]]]]

Commit(S) ==
    /\ students' = S.students
    /\ helpedMembers' = S.helpedMembers
    /\ tickets' = S.tickets
    /\ lastDeq' = S.lastDeq

\* HelpQueueV2.dequeue
dequeue(q, h) ==
    LET err == dequeueCheck(Store, q, h)
    IN  IF err # "ok"
        THEN /\ Reject("dequeue", q, h, err)
             /\ UNCHANGED <<now, queueVars, serverVars, busVars>>
        ELSE /\ Commit(dequeueApply(Store, q, h))
             /\ Suspend("dequeue", q, h, "void", Head(tickets[q]))
             /\ UNCHANGED <<now, isOpen, helpers, waitStart, helpStart, helpEnd, nEnq,
                            serverVars, dms, observing>>
             /\ triggerRender({q})

\* HelpQueueV2.dequeueWithHelper, the dequeue dequeueFirst calls: it hands the
\* removed head to its caller.  [err, S, student, tk]
dequeueWithHelper(S, q, h) ==
    LET err == dequeueCheck(S, q, h)
    IN  IF err # "ok"
        THEN [err |-> err, S |-> S, student |-> None, tk |-> 0]
        ELSE [err |-> "ok", S |-> dequeueApply(S, q, h),
              student |-> Head(S.students[q]), tk |-> Head(S.tickets[q])]

\* HelpQueueV2.currentlyOpen, the getter dequeueFirst reads
currentlyOpen(q) == isOpen[q]

\* the reducer with its comparison turned round: the newest head wins
pickQueue_newest(S, prev, curr) ==
    LET p == waitStart[Head(S.students[prev])]
        c == waitStart[Head(S.students[curr])]
    IN  IF (p # NoTime /\ c # NoTime) /\ p > c THEN prev ELSE curr

\* the reducer keeping prev on a tie: of equal heads the first queue wins
pickQueue_tieFirst(S, prev, curr) ==
    LET p == waitStart[Head(S.students[prev])]
        c == waitStart[Head(S.students[curr])]
    IN  IF (p # NoTime /\ c # NoTime) /\ p <= c THEN prev ELSE curr

\* the reducer of dequeueFirst: prev only when its head has waited strictly longer
pickQueue(S, prev, curr) ==
    LET p == waitStart[Head(S.students[prev])]
        c == waitStart[Head(S.students[curr])]
    IN  IF (p # NoTime /\ c # NoTime) /\ p < c THEN prev ELSE curr

\* Array.prototype.reduce without an initial value
RECURSIVE reduce(_, _, _)
reduce(S, acc, rest) ==
    IF rest = <<>> THEN acc
    ELSE reduce(S, pickQueue(S, acc, Head(rest)), Tail(rest))

\* every queue of the server, whoever its helpers are
currentlyHelpingChannels_all(h) ==
    queues

\* dequeueFirst: the queues whose helper set has the helper
currentlyHelpingChannels(h) ==
    SelectSeq(queues, LAMBDA q : h \in helpers[q])

\* dequeueFirst: of those, the open ones that have students
nonEmptyQueues(S, h) ==
    SelectSeq(currentlyHelpingChannels(h),
              LAMBDA q : currentlyOpen(q) /\ Len(S.students[q]) # 0)

\* dequeueFirst serving the oldest head of the whole server: no filter on the
\* helper set or the open state, and the head is taken without dequeue's guards
dequeueFirst_anyQueue(h, specificQueue, hasRole, inVoice) ==
    IF specificQueue # None /\ ~hasRole
    THEN /\ Reject("dequeueFirst", specificQueue, h, "NoPermission")
         /\ UNCHANGED <<now, queueVars, serverVars, busVars>>
    ELSE LET S1 == IF specificQueue # None
                   THEN dequeueWithHelper(Store, specificQueue, h).S
                   ELSE Store
             withStudents == SelectSeq(queues, LAMBDA q : Len(S1.students[q]) # 0)
         IN  /\ UNCHANGED <<now, isOpen, helpers, waitStart, helpStart, helpEnd, nEnq,
                            serverVars, dms, observing>>
             /\ IF ~inVoice
                THEN /\ Commit(S1)
                     /\ Reject("dequeueFirst", specificQueue, h, "NoVoiceChannel")
                ELSE IF withStudents = <<>>
                THEN /\ Commit(S1)
                     /\ Reject("dequeueFirst", specificQueue, h, "NothingToServe")
                ELSE LET queueToDeq ==
                             reduce(S1, Head(withStudents), Tail(withStudents))
                     IN  /\ Commit(dequeueApply(S1, queueToDeq, h))
                         /\ Suspend("dequeueFirst", specificQueue, h,
                                    Head(S1.students[queueToDeq]),
                                    Head(S1.tickets[queueToDeq]))
             /\ triggerRender({q \in QueueNames : students'[q] # students[q]})

\* AttendingServerV2.dequeueFirst, up to its first await.  hasRole is
\* helperMember.roles.cache.has(specificQueue.queueName) and inVoice is
\* helperMember.voice.channel !== null, both read from the chat platform
dequeueFirst(h, specificQueue, hasRole, inVoice) ==
    IF specificQueue # None /\ ~hasRole
    THEN /\ Reject("dequeueFirst", specificQueue, h, "NoPermission")
         /\ UNCHANGED <<now, queueVars, serverVars, busVars>>
    ELSE LET \* the dequeue of the specific queue is neither awaited nor returned
             S1 == IF specificQueue # None
                   THEN dequeueWithHelper(Store, specificQueue, h).S
                   ELSE Store
         IN  /\ UNCHANGED <<now, isOpen, helpers, waitStart, helpStart, helpEnd, nEnq,
                            serverVars, dms, observing>>
             /\ IF currentlyHelpingChannels(h) = <<>>
                THEN /\ Commit(S1)
                     /\ Reject("dequeueFirst", specificQueue, h, "NotHosting")
                ELSE IF ~inVoice
                THEN /\ Commit(S1)
                     /\ Reject("dequeueFirst", specificQueue, h, "NoVoiceChannel")
                ELSE IF nonEmptyQueues(S1, h) = <<>>
                THEN /\ Commit(S1)
                     /\ Reject("dequeueFirst", specificQueue, h, "NothingToServe")
                ELSE LET queueToDeq ==
                             reduce(S1, Head(nonEmptyQueues(S1, h)),
                                    Tail(nonEmptyQueues(S1, h)))
                         d == dequeueWithHelper(S1, queueToDeq, h)
                     IN  /\ Commit(d.S)
                         /\ IF d.err # "ok"
                            THEN Reject("dequeueFirst", specificQueue, h, d.err)
                            ELSE Suspend("dequeueFirst", specificQueue, h,
                                         d.student, d.tk)
             /\ triggerRender({q \in QueueNames : students'[q] # students[q]})

\* ------------------------------------------------- the server's queue collection
SeqRange(s) == {s[i] : i \in 1..Len(s)}

\* a createQueue or deleteQueueById call suspended at an await: pc is the
\* await it is at, id the queue object (category) it works on, idx the index
\* deleteQueueById looked up
AdminCall(op, name, id, idx, pc) ==
    [op |-> op, name |-> name, id |-> id, idx |-> idx, pc |-> pc]

\* the call moves from one await to the next
Advance(c, d) ==
    pending' = (pending (-) SetToBag({c})) (+) SetToBag({d})

\* Array.prototype.find / findIndex on queues, the test given as the set of
\* the queue objects that pass it: the 1-based position of the first queue
\* that passes, 0 when there is none (findIndex's -1)
findIndex(passing) ==
    IF \E i \in 1..Len(queues) : queues[i] \in passing
    THEN CHOOSE i \in 1..Len(queues) :
            /\ queues[i] \in passing
            /\ \A j \in 1..(i - 1) : queues[j] \notin passing
    ELSE 0

\* Array.prototype.splice(i - 1, 1), i the 1-based position: past the end it
\* removes nothing
splice(seq, i) ==
    IF i \in 1..Len(seq)
    THEN SubSeq(seq, 1, i - 1) \o SubSeq(seq, i + 1, Len(seq))
    ELSE seq

\* the ids a new category can get: those of no existing category, of no queue
\* object in the collection and of no call in flight
FreeIds ==
    QueueNames \ (categories \cup SeqRange(queues)
                    \cup {c.id : c \in BagToSet(pending)}
                    \cup {c.q : c \in BagToSet(calls)})

\* AttendingServerV2.createQueue, up to guild.channels.create: the duplicate
\* check reads the categories of the chat platform (getQueueChannels)
createQueue(name) ==
    IF \E q \in categories : queueName[q] = name
    THEN /\ Reject("createQueue", None, name, "DuplicateQueue")
         /\ UNCHANGED <<now, queueVars, serverVars, busVars>>
    ELSE /\ BagCardinality(pending) < NumCalls
         /\ pending' = pending (+)
                SetToBag({AdminCall("createQueue", name, None, 0, "create")})
         /\ ret' = NoCall
         /\ UNCHANGED <<now, queueVars, calls, queues, categories, queueName, busVars>>

\* createQueue: guild.channels.create resolved, the category exists
createQueue_created(c) ==
    /\ BagIn(c, pending) /\ c.op = "createQueue" /\ c.pc = "create"
    /\ \E id \in FreeIds :
        /\ categories' = categories \cup {id}
        /\ queueName' = [queueName EXCEPT ![id] = c.name]
        /\ Advance(c, [c EXCEPT !.id = id, !.pc = "push"])
    /\ ret' = NoCall
    /\ UNCHANGED <<now, queueVars, calls, queues, busVars>>

\* createQueue pushing the queue object the deleted one left behind
createQueue_push_reuse(c) ==
    /\ BagIn(c, pending) /\ c.op = "createQueue" /\ c.pc = "push"
    /\ queues' = Append(queues, c.id)
    /\ pending' = pending (-) SetToBag({c})
    /\ ret' = Outcome("createQueue", c.id, c.name, "void", 0)
    /\ UNCHANGED <<now, queueVars, calls, categories, queueName, dms, observing>>
    /\ triggerRender({c.id})

\* createQueue: the channels and roles are made, HelpQueueV2.create resolved
\* with a new queue object (isOpen = false, students = [], helpers = new Set)
\* and this.queues.push ran
createQueue_push(c) ==
    /\ BagIn(c, pending) /\ c.op = "createQueue" /\ c.pc = "push"
    /\ queues' = Append(queues, c.id)
    /\ isOpen' = [isOpen EXCEPT ![c.id] = FALSE]
    /\ students' = [students EXCEPT ![c.id] = <<>>]
    /\ tickets' = [tickets EXCEPT ![c.id] = <<>>]
    /\ helpers' = [helpers EXCEPT ![c.id] = {}]
    /\ lastDeq' = [lastDeq EXCEPT ![c.id] = NoDeq]
    /\ pending' = pending (-) SetToBag({c})
    /\ ret' = Outcome("createQueue", c.id, c.name, "void", 0)
    /\ UNCHANGED <<now, waitStart, helpStart, helpEnd, helpedMembers, nEnq,
                   calls, categories, queueName, dms, observing>>
    /\ triggerRender({c.id})

\* AttendingServerV2.deleteQueueById, up to guild.channels.fetch
deleteQueueById(id) ==
    LET queueIndex == findIndex({id})
    IN  IF queueIndex = 0
        THEN /\ Reject("deleteQueueById", id, None, "QueueNotFound")
             /\ UNCHANGED <<now, queueVars, serverVars, busVars>>
        ELSE /\ BagCardinality(pending) < NumCalls
             /\ pending' = pending (+)
                    SetToBag({AdminCall("deleteQueueById", None, id, queueIndex, "fetch")})
             /\ ret' = NoCall
             /\ UNCHANGED <<now, queueVars, calls, queues, categories, queueName, busVars>>

\* deleteQueueById: the category was fetched and deleted with its channels;
\* when it is gone already the deletion fails and the call rejects
deleteQueueById_deleted(c) ==
    /\ BagIn(c, pending) /\ c.op = "deleteQueueById" /\ c.pc = "fetch"
    /\ IF c.id \in categories
       THEN /\ categories' = categories \ {c.id}
            /\ Advance(c, [c EXCEPT !.pc = "splice"])
            /\ ret' = NoCall
       ELSE /\ pending' = pending (-) SetToBag({c})
            /\ ret' = Outcome("deleteQueueById", c.id, None, "ApiFailure", 0)
            /\ UNCHANGED categories
    /\ UNCHANGED <<now, queueVars, calls, queues, queueName, busVars>>

\* deleteQueueById: this.queues.splice(queueIndex, 1), with the index looked
\* up before the awaits
deleteQueueById_splice(c) ==
    /\ BagIn(c, pending) /\ c.op = "deleteQueueById" /\ c.pc = "splice"
    /\ queues' = splice(queues, c.idx)
    /\ pending' = pending (-) SetToBag({c})
    /\ ret' = Outcome("deleteQueueById", c.id, None, "void", 0)
    /\ UNCHANGED <<now, queueVars, calls, categories, queueName, busVars>>

\* AttendingServerV2.enqueueStudent: the queue is looked up by its channel,
\* and when there is none the call resolves having done nothing
enqueueStudent(s, id) ==
    IF findIndex({id}) = 0
    THEN /\ ret' = Outcome("enqueueStudent", id, s, "void", 0)
         /\ UNCHANGED <<now, queueVars, serverVars, busVars, calls>>
    ELSE enqueue(id, s)

\* HelpQueueV2.removeAllStudents, the method clearQueue calls: the waiting
\* list is emptied in one step, then the queue is rendered
removeAllStudents(q, name) ==
    /\ students' = [students EXCEPT ![q] = <<>>]
    /\ tickets' = [tickets EXCEPT ![q] = <<>>]
    /\ Suspend("clearQueue", q, name, "void", 0)
    /\ UNCHANGED <<now, isOpen, helpers, waitStart, helpStart, helpEnd,
                   helpedMembers, nEnq, lastDeq, serverVars, dms, observing>>
    /\ triggerRender({q})

\* AttendingServerV2.clearQueue: the queue is looked up by name
clearQueue(name) ==
    LET i == findIndex({q \in QueueNames : queueName[q] = name})
    IN  IF i = 0
        THEN /\ ret' = Outcome("clearQueue", None, name, "void", 0)
             /\ UNCHANGED <<now, queueVars, serverVars, busVars, calls>>
        ELSE removeAllStudents(queues[i], name)

\* AttendingServerV2.openAllOpenableQueues, up to its first await.  roles is
\* the set of role names of helperMember.  Every openQueue call runs up to
\* its own await before Promise.all is awaited; one that throws rejects the
\* batch
openAllOpenableQueues(h, roles) ==
    LET openableQueues == {q \in SeqRange(queues) : queueName[q] \in roles}
    IN  IF openableQueues = {}
        THEN /\ Reject("openAllOpenableQueues", None, h, "NoClassRoles")
             /\ UNCHANGED <<now, queueVars, serverVars, busVars>>
        ELSE /\ isOpen' = [q \in QueueNames |-> isOpen[q] \/ q \in openableQueues]
             /\ helpStart' = [q \in QueueNames |-> [x \in Helpers |->
                    IF q \in openableQueues /\ ~isOpen[q] /\ x \in helpers[q]
                    THEN now ELSE helpStart[q][x]]]
             /\ IF \E q \in openableQueues : isOpen[q]
                THEN Reject("openAllOpenableQueues", None, h, "AlreadyHosting")
                ELSE Suspend("openAllOpenableQueues", None, h, "void", 0)
             /\ UNCHANGED <<now, students, helpers, waitStart, helpEnd,
                            helpedMembers, tickets, nEnq, lastDeq, serverVars, dms, observing>>
             /\ triggerRender({q \in openableQueues : ~isOpen[q]})

\* AttendingServerV2.closeAllClosableQueues, up to its first await.  Every
\* closeQueue call runs up to its own await; one that throws rejects the
\* batch.  When none throws, closeQueue resolves with nothing, so that
\* helpTimes holds no session: the reduce that follows the await throws a
\* TypeError on an empty array, and reading a field of its undefined result
\* throws one otherwise
closeAllClosableQueues(h, roles) ==
    LET closableQueues == {q \in SeqRange(queues) : queueName[q] \in roles}
    IN  /\ isOpen' = [q \in QueueNames |->
                IF q \in closableQueues /\ ~isOpen[q] THEN FALSE ELSE isOpen[q]]
        /\ helpEnd' = [q \in QueueNames |-> [x \in Helpers |->
                IF q \in closableQueues /\ ~isOpen[q] /\ x \in helpers[q]
                THEN now ELSE helpEnd[q][x]]]
        /\ IF \E q \in closableQueues : isOpen[q]
           THEN Reject("closeAllClosableQueues", None, h, "NotHosting")
           ELSE Suspend("closeAllClosableQueues", None, h, "TypeError", 0)
        /\ UNCHANGED <<now, students, helpers, waitStart, helpStart,
                       helpedMembers, tickets, nEnq, lastDeq, serverVars, dms, observing>>
        /\ triggerRender({q \in closableQueues : ~isOpen[q]})

\* the reducer of closeAllClosableQueues over the sessions the queues
\* returned, a session being the Helper object of h in a queue: prev when
\* its helpEnd is after the helpStart of curr
pickHelpTime(h, prev, curr) ==
    IF helpEnd[prev][h] > helpStart[curr][h] THEN prev ELSE curr

\* helpTimes.reduce without an initial value
RECURSIVE reduceHelpTimes(_, _, _)
reduceHelpTimes(h, acc, rest) ==
    IF rest = <<>> THEN acc
    ELSE reduceHelpTimes(h, pickHelpTime(h, acc, Head(rest)), Tail(rest))

\* closeAllClosableQueues from its reduce on, given one session of h per
\* queue: maxHelpTime is handed to the caller
maxHelpTime(h) ==
    /\ ret' = Outcome("maxHelpTime", reduceHelpTimes(h, Head(queues), Tail(queues)),
                      h, "session", 0)
    /\ UNCHANGED <<now, queueVars, calls, serverVars, busVars>>

\* a direct message to a student: the announcement of a queue ("announced",
\* sent with the queue's name) or the bare message ("plain")
Message(to, text) == [to |-> to, text |-> text]

\* students.map(student => student.member.send(...)): one message for every
\* entry of the list
RECURSIVE Sends(_, _)
Sends(list, text) ==
    IF list = <<>> THEN EmptyBag
    ELSE SetToBag({Message(Head(list), text)}) (+) Sends(Tail(list), text)

\* .map(queue => queue.students).flat()
RECURSIVE flat(_)
flat(qs) ==
    IF qs = <<>> THEN <<>> ELSE students[Head(qs)] \o flat(Tail(qs))

\* every queue of the server, whoever its helpers are
announceQueues_all(h) ==
    queues

\* announceToStudentsInQueue: the queues whose helper set has the helper
announceQueues(h) ==
    SelectSeq(queues, LAMBDA q : h \in helpers[q])

\* announceToStudentsInQueue, its last statement: the message is sent to the
\* students of every queue of the helper
Broadcast(h) == Sends(flat(announceQueues(h)), "plain")

\* AttendingServerV2.announceToStudentsInQueue, up to its first await.  With
\* a target queue the announcement is sent to the students of that queue and
\* the call awaits those messages; it has no return there
announceToStudentsInQueue(h, targetQueue) ==
    IF targetQueue # None
    THEN LET i == findIndex({q \in QueueNames :
                        queueName[q] = targetQueue /\ h \in helpers[q]})
         IN  IF i = 0
             THEN /\ Reject("announce", targetQueue, h, "NotAuthorized")
                  /\ UNCHANGED <<now, queueVars, serverVars, busVars>>
             ELSE /\ BagCardinality(pending) < NumCalls
                  /\ dms' = dms (+) Sends(students[queues[i]], "announced")
                  /\ pending' = pending (+) SetToBag({AdminCall(
                        "announceToStudentsInQueue", h, targetQueue, 0, "broadcast")})
                  /\ ret' = NoCall
                  /\ UNCHANGED <<now, queueVars, calls, queues, categories,
                                 queueName, observing, display>>
    ELSE /\ dms' = dms (+) Broadcast(h)
         /\ Suspend("announce", None, h, "void", 0)
         /\ UNCHANGED <<now, queueVars, serverVars, observing, display>>

\* announceToStudentsInQueue with a target queue, resumed after the
\* announcement: it goes on to the last statement, for the queues as they
\* are then
announce_broadcast(c) ==
    /\ BagIn(c, pending) /\ c.op = "announceToStudentsInQueue" /\ c.pc = "broadcast"
    /\ dms' = dms (+) Broadcast(c.name)
    /\ pending' = pending (-) SetToBag({c})
    /\ Suspend("announce", c.id, c.name, "void", 0)
    /\ UNCHANGED <<now, queueVars, queues, categories, queueName, observing, display>>

\* this.serverExtensions: the extensions of the server, in two of them
serverExtensions == {"e1", "e2"}

\* the methods that end with await Promise.all(this.serverExtensions.map(...));
\* closeAllClosableQueues gets there only when nothing has thrown before
FanOutOps == {"dequeueFirst", "openAllOpenableQueues", "closeAllClosableQueues"}

\* Promise.all over the extensions' promises: the call that awaits it, the
\* extensions whose promise is pending, and whether the promise of
\* Promise.all is settled
FanOut(c, running, settled) == [c |-> c, running |-> running, settled |-> settled]

\* a pending promise of the fan-out settles; an emptied fan-out is dropped
Settle(f, e, settled) ==
    /\ BagIn(f, observing) /\ e \in f.running
    /\ observing' = (observing (-) SetToBag({f}))
                    (+) (IF f.running = {e} THEN EmptyBag
                         ELSE SetToBag({FanOut(f.c, f.running \ {e}, settled)}))
    /\ UNCHANGED <<now, queueVars, calls, serverVars, dms, display>>

\* the awaits before the fan-out are over: serverExtensions.map calls the
\* event method of every extension, and the call awaits Promise.all
publish(c) ==
    /\ BagIn(c, calls) /\ c.op \in FanOutOps /\ c.res # "TypeError"
    /\ calls' = calls (-) SetToBag({c})
    /\ observing' = observing (+) SetToBag({FanOut(c, serverExtensions, FALSE)})
    /\ ret' = NoCall
    /\ UNCHANGED <<now, queueVars, serverVars, dms, display>>

\* the promise of one extension is fulfilled: Promise.all is fulfilled when
\* it was the last one pending and none was rejected, and the call returns
extensionResolves(f, e) ==
    /\ Settle(f, e, f.settled)
    /\ ret' = IF f.running = {e} /\ ~f.settled THEN f.c ELSE NoCall

\* the promise of one extension is rejected: Promise.all is rejected at once,
\* whatever is still pending, and the await throws in the call
extensionRejects(f, e) ==
    /\ Settle(f, e, TRUE)
    /\ ret' = IF ~f.settled
              THEN Outcome(f.c.op, f.c.q, f.c.who, "ExtensionError", 0)
              ELSE NoCall

\* the Queue Engine alone: every operation of one HelpQueueV2
NextQueue ==
    \/ Tick
    \/ \E c \in BagToSet(calls) : Return(c)
    \/ AddHelper("A", "h1")
    \/ openQueue("A", "h1")
    \/ closeQueue("A", "h1")
    \/ \E s \in Students : enqueue("A", s)
    \/ dequeue("A", "h1")

SpecQueue == Init /\ [][NextQueue]_vars

\* The Server Orchestrator serving two queues with one helper.  The queues
\* start in any of the configurations that openQueue and the owner of the
\* helpers field produce at time 0: each queue Open or Closed, h1 one of its
\* helpers or not
InitServer ==
    /\ now = 0
    /\ isOpen \in [QueueNames -> BOOLEAN]
    /\ helpers \in [QueueNames -> SUBSET {"h1"}]
    /\ students = [q \in QueueNames |-> <<>>]
    /\ waitStart = [s \in Students |-> NoTime]
    /\ helpStart = [q \in QueueNames |->
                        [h \in Helpers |-> IF h \in helpers[q] THEN 0 ELSE NoTime]]
    /\ helpEnd = [q \in QueueNames |-> [h \in Helpers |-> NoTime]]
    /\ helpedMembers = [q \in QueueNames |-> [h \in Helpers |-> <<>>]]
    /\ calls = EmptyBag
    /\ ret = NoCall
    /\ tickets = [q \in QueueNames |-> <<>>]
    /\ nEnq = 0
    /\ lastDeq = [q \in QueueNames |-> NoDeq]
    /\ queues = <<"A", "B">>
    /\ categories = QueueNames
    /\ queueName = [q \in QueueNames |-> q]
    /\ pending = EmptyBag
    /\ dms = EmptyBag
    /\ observing = EmptyBag
    /\ display = [q \in QueueNames |-> emptyQueue]

NextServer ==
    \/ Tick
    \/ \E c \in BagToSet(calls) : Return(c)
    \/ \E q \in QueueNames, s \in Students : enqueue(q, s) /\ nEnq < MaxServerEnq
    \/ \E q \in QueueNames : dequeue(q, "h1")
    \/ \E sq \in QueueNames \cup {None}, hasRole, inVoice \in BOOLEAN :
            dequeueFirst("h1", sq, hasRole, inVoice)

SpecServer == InitServer /\ [][NextServer]_vars

\* The server's queue collection: queues are created and deleted while one
\* student and one helper use them.  The server starts with no queue
InitAdmin ==
    /\ now = 0
    /\ isOpen = [q \in QueueNames |-> FALSE]
    /\ students = [q \in QueueNames |-> <<>>]
    /\ helpers = [q \in QueueNames |-> {}]
    /\ waitStart = [s \in Students |-> NoTime]
    /\ helpStart = [q \in QueueNames |-> [h \in Helpers |-> NoTime]]
    /\ helpEnd = [q \in QueueNames |-> [h \in Helpers |-> NoTime]]
    /\ helpedMembers = [q \in QueueNames |-> [h \in Helpers |-> <<>>]]
    /\ calls = EmptyBag
    /\ ret = NoCall
    /\ tickets = [q \in QueueNames |-> <<>>]
    /\ nEnq = 0
    /\ lastDeq = [q \in QueueNames |-> NoDeq]
    /\ queues = <<>>
    /\ categories = {}
    /\ queueName = [q \in QueueNames |-> None]
    /\ pending = EmptyBag
    /\ dms = EmptyBag
    /\ observing = EmptyBag
    /\ display = [q \in QueueNames |-> emptyQueue]

\* the calls suspended at an await, of either kind
InFlight == BagCardinality(calls) + BagCardinality(pending)

NextAdmin ==
    \/ \E c \in BagToSet(calls) : Return(c)
    \/ \E name \in QueueNames : createQueue(name) /\ InFlight < NumCalls
    \/ \E c \in BagToSet(pending) : createQueue_created(c)
    \/ \E c \in BagToSet(pending) : createQueue_push(c)
    \/ \E id \in QueueNames : deleteQueueById(id) /\ InFlight < NumCalls
    \/ \E c \in BagToSet(pending) : deleteQueueById_deleted(c)
    \/ \E c \in BagToSet(pending) : deleteQueueById_splice(c)
    \/ \E name \in QueueNames : clearQueue(name) /\ InFlight < NumCalls
    \/ \E id \in QueueNames :
            enqueueStudent("s1", id) /\ InFlight < NumCalls /\ nEnq < MaxAdminEnq
    \/ \E q \in SeqRange(queues) : AddHelper(q, "h1")
    \/ \E q \in SeqRange(queues) : openQueue(q, "h1") /\ InFlight < NumCalls

SpecAdmin == InitAdmin /\ [][NextAdmin]_vars

\* The bulk operations of one helper on the two queues, from the same
\* configurations as SpecServer
NextBulk ==
    \/ Tick
    \/ \E c \in BagToSet(calls) : Return(c)
    \/ \E roles \in SUBSET QueueNames : openAllOpenableQueues("h1", roles)
    \/ \E roles \in SUBSET QueueNames : closeAllClosableQueues("h1", roles)
    \/ \E q \in QueueNames : openQueue(q, "h1")
    \/ \E q \in QueueNames : closeQueue(q, "h1")

SpecBulk == InitServer /\ [][NextBulk]_vars

\* The reduce of closeAllClosableQueues on its own: h1 has one session in
\* each queue, with any start and any end not before it
InitSessions ==
    /\ now = MaxSessionTime
    /\ isOpen = [q \in QueueNames |-> FALSE]
    /\ students = [q \in QueueNames |-> <<>>]
    /\ helpers = [q \in QueueNames |-> {"h1"}]
    /\ waitStart = [s \in Students |-> NoTime]
    /\ helpStart \in [QueueNames -> [Helpers -> {NoTime} \cup (0..MaxSessionTime)]]
    /\ helpEnd \in [QueueNames -> [Helpers -> {NoTime} \cup (0..MaxSessionTime)]]
    /\ \A q \in QueueNames :
        /\ helpStart[q]["h2"] = NoTime /\ helpEnd[q]["h2"] = NoTime
        /\ 0 <= helpStart[q]["h1"] /\ helpStart[q]["h1"] <= helpEnd[q]["h1"]
    /\ helpedMembers = [q \in QueueNames |-> [h \in Helpers |-> <<>>]]
    /\ calls = EmptyBag
    /\ ret = NoCall
    /\ tickets = [q \in QueueNames |-> <<>>]
    /\ nEnq = 0
    /\ lastDeq = [q \in QueueNames |-> NoDeq]
    /\ queues = <<"A", "B">>
    /\ categories = QueueNames
    /\ queueName = [q \in QueueNames |-> q]
    /\ pending = EmptyBag
    /\ dms = EmptyBag
    /\ observing = EmptyBag
    /\ display = [q \in QueueNames |-> emptyQueue]

NextSessions ==
    maxHelpTime("h1")

SpecSessions == InitSessions /\ [][NextSessions]_vars

\* Announcements of one helper to the students of the two queues, from the
\* same configurations as SpecServer; one announcement that reaches a student
\* in a behaviour
NextAnnounce ==
    \/ \E c \in BagToSet(calls) : Return(c)
    \/ \E q \in QueueNames, s \in Students : enqueue(q, s) /\ nEnq < MaxServerEnq
    \/ \E t \in QueueNames \cup {None} :
            announceToStudentsInQueue("h1", t) /\ dms = EmptyBag
    \/ \E c \in BagToSet(pending) : announce_broadcast(c)

SpecAnnounce == InitServer /\ [][NextAnnounce]_vars

\* The server with its extensions: the calls that end with a fan-out go
\* through it before they return; at most NumCalls calls are awaiting
Awaited == BagCardinality(calls) + BagCardinality(observing)

NextObservers ==
    \/ \E c \in BagToSet(calls) : Return(c) /\ c.op \notin FanOutOps
    \/ \E q \in QueueNames, s \in Students :
            enqueue(q, s) /\ nEnq < MaxServerEnq /\ Awaited < NumCalls
    \/ \E sq \in QueueNames \cup {None}, hasRole, inVoice \in BOOLEAN :
            dequeueFirst("h1", sq, hasRole, inVoice) /\ Awaited < NumCalls
    \/ \E roles \in SUBSET QueueNames :
            openAllOpenableQueues("h1", roles) /\ Awaited < NumCalls
    \/ \E c \in BagToSet(calls) : publish(c)
    \/ \E f \in BagToSet(observing), e \in serverExtensions : extensionResolves(f, e)
    \/ \E f \in BagToSet(observing), e \in serverExtensions : extensionRejects(f, e)

SpecObservers == InitServer /\ [][NextObservers]_vars

\* The operations of HelpQueueV2 on the two queues of a server, from the
\* same configurations as SpecServer
NextEngine ==
    \/ Tick
    \/ \E c \in BagToSet(calls) : Return(c)
    \/ \E q \in QueueNames : openQueue(q, "h1")
    \/ \E q \in QueueNames : closeQueue(q, "h1")
    \/ \E q \in QueueNames, s \in Students : enqueue(q, s) /\ nEnq < MaxServerEnq
    \/ \E q \in QueueNames : dequeue(q, "h1")

SpecEngine == InitServer /\ [][NextEngine]_vars

\* One queue with the two helpers: its owner adds them, and the queue is
\* opened and closed for either
NextHelpers ==
    \/ Tick
    \/ \E c \in BagToSet(calls) : Return(c)
    \/ \E h \in Helpers : AddHelper("A", h)
    \/ \E h \in Helpers : openQueue("A", h)
    \/ \E h \in Helpers : closeQueue("A", h)

SpecHelpers == Init /\ [][NextHelpers]_vars

\* The helper h1 hosts the two queues, both Open, stays in a voice channel
\* and calls dequeueFirst without a queue again and again, while students
\* join either queue.  The clock is strictly increasing for the students: no
\* student joins at the time a waiting student joined.  The renders complete
InitFair ==
    /\ InitServer
    /\ isOpen = [q \in QueueNames |-> TRUE]
    /\ helpers = [q \in QueueNames |-> {"h1"}]

laterThanWaiting ==
    \A q \in QueueNames : \A i \in 1..Len(students[q]) :
        waitStart[students[q][i]] < now

\* the clock, over 0..MaxFairTime
TickFair ==
    /\ now < MaxFairTime
    /\ now' = now + 1
    /\ ret' = NoCall
    /\ UNCHANGED <<queueVars, serverVars, busVars, calls>>

NextFair ==
    \/ TickFair
    \/ \E c \in BagToSet(calls) : Return(c)
    \/ \E q \in QueueNames, s \in Students : enqueue(q, s) /\ laterThanWaiting
    \/ dequeueFirst("h1", None, TRUE, TRUE)

SpecFair ==
    /\ InitFair /\ [][NextFair]_vars
    /\ WF_vars(dequeueFirst("h1", None, TRUE, TRUE))
    /\ WF_vars(\E c \in BagToSet(calls) : Return(c))

\* ------------------------------------------------------------------ claims

\* the step suspended exactly the call c at its first await: the call went
\* through its guards and is on its way to hand c.res to its caller
Begun(c) == calls' = calls (+) SetToBag({c})

\* C1: successive successful dequeues of one queue return the requesters in
\* the order they were enqueued and in non-decreasing waitStart order.
C1_FifoByWaitStart ==
    [][\A q \in QueueNames :
        lastDeq'[q] # lastDeq[q] =>
            /\ lastDeq'[q].tk > lastDeq[q].tk
            /\ lastDeq'[q].ws >= lastDeq[q].ws]_vars

\* the dequeue calls that are suspended or have just returned, with what they obtained
Obtained == {c \in BagToSet(calls) \cup {ret} : c.tk # 0}

\* C2: under every interleaving of dequeue calls, no two calls obtain the same
\* enqueued requester, and a requester a call obtained is in no waiting list.
C2_NoDoubleHandout ==
    /\ \A c \in BagToSet(calls) : c.tk # 0 => CopiesIn(c, calls) = 1
    /\ \A c1, c2 \in Obtained : c1.tk = c2.tk => c1 = c2
    /\ ret.tk # 0 => ~BagIn(ret, calls)
    /\ \A c \in Obtained, q \in QueueNames : c.tk \notin SeqRange(tickets[q])

\* two dequeueFirst calls are suspended at once, both served from queue A
C2_Witness ==
    /\ ~isOpen["B"]
    /\ \E c1, c2 \in BagToSet(calls) :
        /\ c1.op = "dequeueFirst" /\ c2.op = "dequeueFirst"
        /\ c1.tk # 0 /\ c2.tk # 0 /\ c1 # c2

\* the queues dequeueFirst may serve for helper h
Candidates(h) ==
    {q \in QueueNames : h \in helpers[q] /\ isOpen[q] /\ students[q] # <<>>}

C4_EnqueueClosedRejected ==
    [][\A q \in QueueNames, s \in Students :
        (enqueue(q, s) /\ ~isOpen[q]) =>
            /\ ret' = Outcome("enqueue", q, s, "NotOpen", 0)
            /\ UNCHANGED <<students, isOpen, waitStart, calls>>]_vars

\* a requester is refused by the Closed queue, at a time when a stamp would show
C4_Witness ==
    /\ ret.op = "enqueue" /\ ret.res = "NotOpen"
    /\ ~isOpen[ret.q]
    /\ waitStart[ret.who] = NoTime /\ now > 0

\* C5: open on an Open queue fails with AlreadyOpen and changes nothing (the
\* queue stays Open, no helper's helpStart is stamped again); open on a Closed
\* queue succeeds and leaves the queue Open.
C5_OpenGuard ==
    [][\A q \in QueueNames, h \in Helpers :
        openQueue(q, h) =>
            IF isOpen[q]
            THEN /\ ret' = Outcome("openQueue", q, h, "AlreadyOpen", 0)
                 /\ UNCHANGED <<queueVars, calls>>
            ELSE /\ isOpen'[q]
                 /\ Begun(Outcome("openQueue", q, h, "void", 0))]_vars

\* the second open of a queue whose helper was stamped at an earlier time
C5_Witness ==
    /\ ret.op = "openQueue" /\ ret.res = "AlreadyOpen"
    /\ isOpen[ret.q]
    /\ \E h \in helpers[ret.q] : helpStart[ret.q][h] # NoTime /\ helpStart[ret.q][h] < now

\* C6: close(helper) on an Open queue by a helper of its authorized set
\* succeeds and leaves the queue Closed.
C6_CloseFromOpen ==
    [][\A q \in QueueNames, h \in Helpers :
        (closeQueue(q, h) /\ isOpen[q] /\ h \in helpers[q]) =>
            /\ ~isOpen'[q]
            /\ Begun(Outcome("closeQueue", q, h, "void", 0))]_vars

\* C7: close(helper) fails with NotHosting whenever the queue is not Open or
\* the helper is not in the authorized set, and then stamps no helpEnd and
\* leaves the queue state unchanged.
C7_CloseRejected ==
    [][\A q \in QueueNames, h \in Helpers :
        (closeQueue(q, h) /\ (~isOpen[q] \/ h \notin helpers[q])) =>
            /\ ret' = Outcome("closeQueue", q, h, "NotHosting", 0)
            /\ UNCHANGED <<helpEnd, isOpen>>]_vars

\* C8: dequeue(helper) fails with NotAuthorized when the helper is not in the
\* authorized set, and with Empty when the helper is authorized and the
\* waiting list is empty; in both cases the waiting list and the served lists
\* are unchanged.
C8_DequeueRejected ==
    [][\A q \in QueueNames, h \in Helpers :
        dequeue(q, h) =>
            /\ h \notin helpers[q] =>
                /\ ret' = Outcome("dequeue", q, h, "NotAuthorized", 0)
                /\ UNCHANGED <<students, helpedMembers, calls>>
            /\ (h \in helpers[q] /\ students[q] = <<>>) =>
                /\ ret' = Outcome("dequeue", q, h, "Empty", 0)
                /\ UNCHANGED <<students, helpedMembers, calls>>]_vars

\* a helper who has served someone finds the waiting list empty
C8_Witness ==
    /\ ret.op = "dequeue" /\ ret.res = "Empty"
    /\ ret.who \in helpers[ret.q]
    /\ helpedMembers[ret.q][ret.who] # <<>>

\* C9: a successful dequeue(helper) removes exactly the head of the waiting
\* list, hands that requester to the caller and appends it to the end of the
\* helper's served list.
C9_DequeueReturnsHead ==
    [][\A q \in QueueNames, h \in Helpers :
        (dequeue(q, h) /\ dequeueCheck(Store, q, h) = "ok") =>
            /\ students'[q] = Tail(students[q])
            /\ helpedMembers'[q][h] = Append(helpedMembers[q][h], Head(students[q]))
            /\ Begun(Outcome("dequeue", q, h, Head(students[q]), Head(tickets[q])))]_vars

\* C10: after open(h) succeeds on a queue, h is in the queue's authorized set.
C10_OpenerAuthorized ==
    [][\A q \in QueueNames, h \in Helpers :
        (openQueue(q, h) /\ ~isOpen[q]) => h \in helpers'[q]]_vars

\* C11: a successful close(h) hands h's session to the caller: the Helper
\* object of h, with the helpEnd stamped by this close, its helpStart and its
\* served list.
C11_CloseReturnsSession ==
    [][\A q \in QueueNames, h \in Helpers :
        (closeQueue(q, h) /\ calls' # calls) =>
            /\ helpEnd'[q][h] = now
            /\ Begun(Outcome("closeQueue", q, h, h, 0))]_vars

\* C12: close(h) on an Open queue hosted by h succeeds and stamps h's
\* helpEnd, and the open(h) that follows it succeeds and stamps a helpStart
\* of h that is not before that helpEnd.
C12_CloseThenOpen ==
    [][\A q \in QueueNames, h \in Helpers :
        /\ (closeQueue(q, h) /\ isOpen[q] /\ h \in helpers[q]) =>
                /\ calls' # calls
                /\ helpEnd'[q][h] = now
        /\ (openQueue(q, h) /\ ~isOpen[q] /\ h \in helpers[q]
                /\ helpEnd[q][h] # NoTime) =>
                /\ calls' # calls
                /\ helpStart'[q][h] >= helpEnd[q][h]]_vars

\* C13: dequeueFirst without a queue argument removes no requester from a
\* queue that is Closed or whose helper set does not have the helper.
C13_OnlyCandidatesLose ==
    [][\A h \in Helpers, hasRole, inVoice \in BOOLEAN :
        dequeueFirst(h, None, hasRole, inVoice) =>
            \A q \in QueueNames \ Candidates(h) : students'[q] = students[q]]_vars

\* queue A was served although the oldest head of the server waits in B,
\* an Open queue the helper does not host
C13_Witness ==
    /\ isOpen["B"] /\ "h1" \notin helpers["B"] /\ students["B"] # <<>>
    /\ \E c \in BagToSet(calls) :
        /\ c.op = "dequeueFirst" /\ c.q = None
        /\ c.tk # 0 /\ c.tk = lastDeq["A"].tk
        /\ waitStart[Head(students["B"])] < lastDeq["A"].ws

\* C14 as stated: with no candidate queue, dequeueFirst without a queue
\* argument fails with NothingToServe and no waiting list or served list
\* changes.
C14_NothingToServe ==
    [][\A h \in Helpers, hasRole, inVoice \in BOOLEAN :
        (dequeueFirst(h, None, hasRole, inVoice) /\ Candidates(h) = {}) =>
            /\ ret' = Outcome("dequeueFirst", None, h, "NothingToServe", 0)
            /\ UNCHANGED <<students, helpedMembers, calls>>]_vars

\* C14 amended: with no candidate queue, dequeueFirst without a queue
\* argument fails with a ServerError and no waiting list or served list
\* changes; the error is "not currently hosting" when the helper is in no
\* queue's helper set, else the voice-channel error when the helper is in no
\* voice channel, and NothingToServe otherwise.
C14_EmptyCandidatesRejected ==
    [][\A h \in Helpers, hasRole, inVoice \in BOOLEAN :
        (dequeueFirst(h, None, hasRole, inVoice) /\ Candidates(h) = {}) =>
            /\ ret' = Outcome("dequeueFirst", None, h,
                        IF \A q \in SeqRange(queues) : h \notin helpers[q]
                        THEN "NotHosting"
                        ELSE IF ~inVoice THEN "NoVoiceChannel"
                        ELSE "NothingToServe", 0)
            /\ UNCHANGED <<students, helpedMembers, calls>>]_vars

\* a helper who hosts no queue is told so while a requester is waiting
C14_Witness ==
    /\ ret.op = "dequeueFirst" /\ ret.q = None /\ ret.res = "NotHosting"
    /\ \A q \in QueueNames : ret.who \notin helpers[q]
    /\ \E q \in QueueNames : isOpen[q] /\ students[q] # <<>>

\* the position of a queue in the server's iteration order
Pos(q) == findIndex({q})

\* the candidate queues whose head has the least waitStart
OldestHeads(h) ==
    {q \in Candidates(h) :
        \A q2 \in Candidates(h) :
            waitStart[Head(students[q])] <= waitStart[Head(students[q2])]}

Found(name) == findIndex({q \in QueueNames : queueName[q] = name})

\* C16: clearQueue and enqueue each change the waiting list in one step and
\* never again: clearQueue empties the list of its queue as it is at that
\* step and touches no other list, an enqueue appends its requester to the
\* list as it is at that step, and no call changes a list when it resumes
\* after its await.
C16_ClearSerialized ==
    [][/\ \A name \in QueueNames :
            (clearQueue(name) /\ Found(name) # 0) =>
                /\ students'[queues[Found(name)]] = <<>>
                /\ \A q \in QueueNames \ {queues[Found(name)]} :
                        students'[q] = students[q]
       /\ \A q \in QueueNames, s \in Students :
            (enqueue(q, s) /\ isOpen[q]) => students' = [students EXCEPT ![q] = Append(@, s)]
       /\ \A c \in BagToSet(calls) : Return(c) => students' = students]_vars

\* an enqueue ran after a clearQueue of the same queue that is still
\* suspended, and its requester is in the waiting list
C16_Witness ==
    \E c1, c2 \in BagToSet(calls) :
        /\ c1.op = "clearQueue" /\ c2.op = "enqueue" /\ c1.q = c2.q
        /\ students[c1.q] = <<c2.who>>

\* C17: no two queues of the server's collection have the same name.
C17_UniqueNames ==
    \A i, j \in 1..Len(queues) :
        queueName[queues[i]] = queueName[queues[j]] => i = j

\* C18: deleteQueueById for an id that matches no queue fails with
\* QueueNotFound and leaves the collection unchanged, and when a
\* deleteQueueById call succeeds no queue with its id is in the collection.
C18_DeleteRemovesQueue ==
    [][/\ \A id \in QueueNames :
            (deleteQueueById(id) /\ id \notin SeqRange(queues)) =>
                /\ ret' = Outcome("deleteQueueById", id, None, "QueueNotFound", 0)
                /\ queues' = queues
       /\ \A c \in BagToSet(pending) :
            deleteQueueById_splice(c) => c.id \notin SeqRange(queues')]_vars

\* C19: createQueue of a name that has no category is not rejected,
\* deleteQueueById of a queue of the collection is not rejected and removes
\* it when the collection did not change while it was suspended (as in a
\* sequential run), and the queue a createQueue adds is Closed with an empty
\* waiting list and an empty helper set, whatever was there before.
C19_RecreatedQueueIsFresh ==
    [][/\ \A name \in QueueNames :
            (createQueue(name) /\ \A q \in categories : queueName[q] # name) =>
                ret' = NoCall
       /\ \A id \in QueueNames :
            (deleteQueueById(id) /\ id \in SeqRange(queues)) => ret' = NoCall
       /\ \A c \in BagToSet(pending) :
            /\ (deleteQueueById_splice(c) /\ c.idx <= Len(queues)
                    /\ queues[c.idx] = c.id) =>
                    /\ ret' = Outcome("deleteQueueById", c.id, None, "void", 0)
                    /\ c.id \notin SeqRange(queues')
            /\ createQueue_push(c) =>
                    /\ ret' = Outcome("createQueue", c.id, c.name, "void", 0)
                    /\ queues'[Len(queues')] = c.id
                    /\ ~isOpen'[c.id]
                    /\ students'[c.id] = <<>>
                    /\ helpers'[c.id] = {}]_vars

\* a queue was created where a deleted queue had a helper and a requester
\* had been enqueued
C19_Witness ==
    /\ ret.op = "createQueue" /\ ret.res = "void"
    /\ ret.q \in SeqRange(queues) /\ queueName[ret.q] = ret.who
    /\ helpStart[ret.q]["h1"] # NoTime /\ helpers[ret.q] = {}
    /\ nEnq > 0 /\ students[ret.q] = <<>> /\ ~isOpen[ret.q]

\* C20: openAllOpenableQueues for a helper some of whose queues are Open
\* already does not fail: every queue of the helper is Open afterwards and
\* the result is the number of queues that were opened.
C20_OpenAllPartial ==
    [][\A h \in Helpers, roles \in SUBSET QueueNames :
        LET mine == {q \in SeqRange(queues) : queueName[q] \in roles}
        IN  (openAllOpenableQueues(h, roles) /\ \E q \in mine : isOpen[q]) =>
                /\ \A q \in mine : isOpen'[q]
                /\ Begun(Outcome("openAllOpenableQueues", None, h,
                        ToString(Cardinality({q \in mine : ~isOpen[q]})), 0))]_vars

\* C21: closeAllClosableQueues for a helper some of whose queues are Closed
\* already and who hosts an Open one does not fail, and every Open queue the
\* helper hosts is Closed afterwards.
C21_CloseAllPartial ==
    [][\A h \in Helpers, roles \in SUBSET QueueNames :
        LET mine == {q \in SeqRange(queues) : queueName[q] \in roles}
        IN  (/\ closeAllClosableQueues(h, roles)
             /\ \E q \in mine : ~isOpen[q]
             /\ \E q \in mine : isOpen[q] /\ h \in helpers[q]) =>
                /\ ret' = NoCall /\ calls' # calls
                /\ \A q \in mine : h \in helpers[q] => ~isOpen'[q]]_vars

\* the duration of the session of h in queue q
Duration(q, h) == helpEnd[q][h] - helpStart[q][h]

\* C22: the session closeAll hands to its caller has the greatest duration
\* helpEnd - helpStart of the sessions the closed queues returned.
C22_MaxDuration ==
    [][\A h \in Helpers :
        maxHelpTime(h) =>
            \A q \in SeqRange(queues) : Duration(q, h) <= Duration(ret'.q, h)]_vars

\* C23: closeAllClosableQueues for a helper who hosts no queue (no queue of
\* the helper's roles is Open with the helper in its helper set, or the
\* helper has no queue role) fails with the ServerError "not hosting" and
\* changes no queue.
C23_CloseAllNotHosting ==
    [][\A h \in Helpers, roles \in SUBSET QueueNames :
        LET mine == {q \in SeqRange(queues) : queueName[q] \in roles}
        IN  (/\ closeAllClosableQueues(h, roles)
             /\ \A q \in mine : ~(isOpen[q] /\ h \in helpers[q])) =>
                /\ ret' = Outcome("closeAllClosableQueues", None, h, "NotHosting", 0)
                /\ UNCHANGED <<queueVars, calls>>]_vars

\* the number of messages a student has received
DmsTo(bag, s) ==
    CopiesIn(Message(s, "announced"), bag) + CopiesIn(Message(s, "plain"), bag)

\* C24: an announcement with a target queue sends one message to every
\* student waiting in that queue and none to any other student, at its call
\* and when it resumes; when the helper is not in the helper set of the queue
\* it fails with NotAuthorized and no message is sent.  Stated for lists in
\* which no student waits twice.
C24_AnnounceScoped ==
    [][/\ \A h \in Helpers, t \in QueueNames :
            (/\ announceToStudentsInQueue(h, t)
             /\ \A q \in QueueNames :
                    Cardinality(SeqRange(students[q])) = Len(students[q])) =>
                LET i == findIndex({q \in QueueNames :
                                queueName[q] = t /\ h \in helpers[q]})
                IN  IF i = 0
                    THEN /\ ret' = Outcome("announce", t, h, "NotAuthorized", 0)
                         /\ dms' = dms
                    ELSE \A s \in Students :
                            DmsTo(dms', s) - DmsTo(dms, s) =
                                IF s \in SeqRange(students[queues[i]]) THEN 1 ELSE 0
       /\ \A c \in BagToSet(pending) : announce_broadcast(c) => dms' = dms]_vars

\* C25: an announcement without a target queue sends the message to the
\* students waiting in the queues whose helper set has the helper, and to no
\* other student.
C25_BroadcastToHosted ==
    [][\A h \in Helpers :
        announceToStudentsInQueue(h, None) =>
            /\ Begun(Outcome("announce", None, h, "void", 0))
            /\ \A s \in Students :
                    DmsTo(dms', s) > DmsTo(dms, s) <=>
                        \E q \in SeqRange(queues) :
                            h \in helpers[q] /\ s \in SeqRange(students[q])]_vars

\* a broadcast reached s1 and not s2, who waits in a queue the helper is not
\* a helper of
C25_Witness ==
    /\ \E c \in BagToSet(calls) : c.op = "announce" /\ c.q = None /\ c.who = "h1"
    /\ DmsTo(dms, "s1") = 1 /\ DmsTo(dms, "s2") = 0
    /\ \E q \in QueueNames : "h1" \notin helpers[q] /\ students[q] = <<"s2">>
    /\ \E q \in QueueNames : "h1" \in helpers[q] /\ students[q] = <<"s1">>

\* C26: when the promise of an extension settles, rejected or fulfilled, the
\* call that published the event does not fail with the extension's error,
\* and once every extension has settled the call returns its own result.
C26_ObserverIsolated ==
    [][\A f \in BagToSet(observing), e \in serverExtensions :
        (extensionResolves(f, e) \/ extensionRejects(f, e)) =>
            /\ ret'.res # "ExtensionError"
            /\ f.running = {e} => ret' = f.c]_vars

\* C27: the call that published an event gets control back, with a result or
\* with an error, only at the step that settles the last pending extension.
C27_FanOutWaitsForAll ==
    [][\A f \in BagToSet(observing), e \in serverExtensions :
        ((extensionResolves(f, e) \/ extensionRejects(f, e)) /\ ret' # NoCall)
            => f.running = {e}]_vars

\* the kinds of failure the server's bulk operations report
Failures == {"NoPermission", "NotHosting", "NoVoiceChannel", "NothingToServe",
             "NotAuthorized", "Empty", "NoClassRoles", "AlreadyHosting",
             "TypeError", "ExtensionError"}

\* C28: when dequeueFirst, openAllOpenableQueues or closeAllClosableQueues
\* fails at its call, no waiting list, no helper's list of helped members and
\* no queue's open state differs from what it was before the call.
C28_FailsBeforeMutation ==
    [][(/\ ret' # NoCall
        /\ ret'.op \in FanOutOps
        /\ ret'.res \in Failures
        /\ calls' = calls)
            => UNCHANGED <<students, helpedMembers, isOpen>>]_vars

\* C29: no student appears more than once in the waiting list of one queue.
C29_NoDuplicates ==
    \A q \in QueueNames : Cardinality(SeqRange(students[q])) = Len(students[q])

\* C30: an enqueueStudent for a queue that is not in the server's collection,
\* and a clearQueue for a name no queue of the collection has, do not
\* complete as if they had succeeded: the caller gets an error.
C30_MissingQueueReported ==
    [][/\ \A s \in Students, id \in QueueNames :
            (enqueueStudent(s, id) /\ id \notin SeqRange(queues))
                => (ret' # NoCall /\ ret'.res # "void")
       /\ \A name \in QueueNames :
            (clearQueue(name) /\ findIndex({q \in QueueNames : queueName[q] = name}) = 0)
                => (ret' # NoCall /\ ret'.res # "void")]_vars

\* C31: a dequeueFirst with a specific queue that has a student waiting, by a
\* helper who has the role of that queue, that does not fail at its call
\* removes the head of the specific queue and nothing else from any list,
\* and the student it hands to its caller is that head.
C31_SpecificQueueOnly ==
    [][\A sq \in QueueNames, inVoice \in BOOLEAN :
        (/\ dequeueFirst("h1", sq, TRUE, inVoice)
         /\ students[sq] # <<>>
         /\ calls' # calls) =>
            /\ students' = [students EXCEPT ![sq] = Tail(@)]
            /\ \E c \in BagToSet(calls') :
                    /\ calls' = calls (+) SetToBag({c})
                    /\ c.res = Head(students[sq])]_vars

\* C32: no student is in the waiting lists of two queues at the same time.
C32_OneQueueMembership ==
    \A s \in Students :
        Cardinality({q \in QueueNames : s \in SeqRange(students[q])}) <= 1

\* C33: when a deleteQueueById call resumes after its awaits and takes a
\* queue out of the collection, the queue with the id it was called with, and
\* no other, is the one that is taken out, the other queues keeping their
\* order.
C33_DeleteExactlyThatQueue ==
    [][\A c \in BagToSet(pending) :
        deleteQueueById_splice(c) =>
            /\ c.id \in SeqRange(queues)
            /\ queues' = SelectSeq(queues, LAMBDA q : q # c.id)]_vars

C36_StampsOnlyCaller ==
    [][\A q \in QueueNames, h \in Helpers :
        /\ openQueue(q, h) =>
                \A x \in Helpers \ {h} : helpStart'[q][x] = helpStart[q][x]
        /\ closeQueue(q, h) =>
                \A x \in Helpers \ {h} : helpEnd'[q][x] = helpEnd[q][x]]_vars

\* C37: an openQueue, closeQueue, enqueue or dequeue that goes through
\* checks, assigns and hands the display the view of the queue as the
\* assignments left it, all in one step in which nothing is returned; its
\* result is delivered by a later step, which changes neither the queues nor
\* what is displayed.
C37_MutateRenderReturn ==
    [][/\ \A q \in QueueNames, h \in Helpers, s \in Students :
            ((openQueue(q, h) \/ closeQueue(q, h) \/ enqueue(q, s) \/ dequeue(q, h))
                /\ calls' # calls) =>
                    /\ display'[q] =
                            QueueViewModel(helpers'[q], students'[q], isOpen'[q])
                    /\ ret' = NoCall
       /\ \A c \in BagToSet(calls) :
            Return(c) => (ret' = c /\ UNCHANGED <<queueVars, display>>)]_vars

\* an enqueue is awaiting its render, and the display shows its student
C37_Witness ==
    \E c \in BagToSet(calls) :
        /\ c.op = "enqueue"
        /\ students[c.q] # <<>>
        /\ c.who = students[c.q][Len(students[c.q])]
        /\ display[c.q].studentDisplayNames = students[c.q]

\* C38: while a call is awaiting its render, an enqueue of an Open queue
\* appends its student and a dequeue by a helper of a queue that has students
\* removes the head, on the same queue or on another, and any awaited call
\* can be the next to return, the others staying suspended.
C38_PendingRenderBlocksNothing ==
    [][calls # EmptyBag =>
        /\ \A q \in QueueNames, s \in Students :
                (enqueue(q, s) /\ isOpen[q]) =>
                    (students'[q] = Append(students[q], s) /\ calls' # calls)
        /\ \A q \in QueueNames, h \in Helpers :
                (dequeue(q, h) /\ h \in helpers[q] /\ students[q] # <<>>) =>
                    (students'[q] = Tail(students[q]) /\ calls' # calls)
        /\ \A c \in BagToSet(calls) :
                Return(c) => (ret' = c /\ calls' = calls (-) SetToBag({c}))]_vars

\* the first enqueue, on queue A, is still awaiting its render when the
\* second, on queue B, has returned
C38_Witness ==
    /\ \E c \in BagToSet(calls) : c.op = "enqueue" /\ c.q = "A"
    /\ tickets["A"] = <<1>> /\ lastDeq["A"] = NoDeq
    /\ tickets["B"] = <<2>>
    /\ ret.op = "enqueue" /\ ret.q = "B" /\ ret.res = "void"

\* the entries of the waiting lists that are student s, and the entries of
\* the helpers' lists of helped members that are
Waiting(s) ==
    Cardinality({p \in QueueNames \X (1..MaxEnq) :
                    p[2] <= Len(students[p[1]]) /\ students[p[1]][p[2]] = s})

Served(s) ==
    Cardinality({p \in QueueNames \X Helpers \X (1..MaxEnq) :
                    /\ p[3] <= Len(helpedMembers[p[1]][p[2]])
                    /\ helpedMembers[p[1]][p[2]][p[3]] = s})

\* C39: an enqueue that goes through adds one entry for its student to the
\* waiting list of its queue; every other step of enqueue, dequeue and
\* dequeueFirst calls keeps, for each student, the number of entries in the
\* waiting lists and in the helpers' lists together, and a dequeue moves the
\* head of the list of a queue to the list of a helper of that queue.
C39_Conservation ==
    [][/\ \A s \in Students :
            Waiting(s)' + Served(s)' - (Waiting(s) + Served(s)) =
                IF nEnq' # nEnq /\ \E q \in QueueNames :
                                        students'[q] = Append(students[q], s)
                THEN 1 ELSE 0
       /\ \A s \in Students : Served(s)' >= Served(s)
       /\ nEnq' # nEnq => \E q \in QueueNames, s \in Students :
                                students' = [students EXCEPT ![q] = Append(@, s)]]_vars

\* both students joined; s1 was taken by the helper and s2 is waiting
C39_Witness ==
    /\ nEnq = 2
    /\ Served("s1") = 1 /\ Waiting("s1") = 0
    /\ Served("s2") = 0 /\ Waiting("s2") = 1

====
